---- MODULE Spec2Model ----
(***************************************************************************)
(* A model of news.js: the extractor NewsCrawler.parseNews, the publisher  *)
(* (saveToMarkdown, commitToGitHub) and the orchestrator main().           *)
(*                                                                         *)
(* Strings whose characters the code inspects (URLs, hrefs, anchor texts)  *)
(* are sequences of one-character strings.  The Chinese labels of the      *)
(* source are written as ASCII tags, the original text is in the comment   *)
(* next to each.                                                           *)
(***************************************************************************)
EXTENDS Integers, Sequences, FiniteSets, TLC

VARIABLES
    \* ---- parseNews (one call) ----
    url,          \* this.url of the crawler whose parseNews is called
    html,         \* the document handed to parseNews
    newsItems,    \* the local newsItems of parseNews, before deduplication
    uniqueNews,   \* the list parseNews returns
    passes,       \* the selector passes that parseNews executed
    ppc,          \* position of the parseNews call: "call" | "parsed"
    \* ---- main() ----
    pc,           \* position of main() (its await points)
    idx,          \* index into newsSites of the target being processed
    news,         \* the list crawler.run() returned for the current target
    produced,     \* per target, what its parseNews returned (<<>> on failure)
    attempts,     \* log: targets whose fetchPage was started, in order
    allNews,      \* the run-scoped accumulator of main()
    sleeps,       \* log: targets after which main() slept
    sleepTime,    \* the last sleepTime drawn (milliseconds)
    day,          \* the calendar day last read from new Date()
    mdFilename,   \* the filename main() derived after the loop
    fsLog,        \* log: every fs.writeFileSync call, with its outcome
    clock,        \* logical time of new Date() (ticks at each record pushed)
    files,        \* the working directory: filename -> content
    index,        \* git index: filename -> content
    head,         \* git HEAD commit: filename -> content
    remote,       \* origin/main: filename -> content
    gitLog,       \* log: git operations invoked, with argument and outcome
    status,       \* the status result held by commitToGitHub
    commitPath,   \* the argument of the commitToGitHub call
    commitRet     \* what commitToGitHub returned: "none" (not yet) | "true" | "false"

parseVars == <<url, html, newsItems, uniqueNews, passes, ppc>>
mainVars == <<idx, news, produced, attempts, allNews, sleeps, sleepTime, day,
              mdFilename, fsLog, clock, files, index, head, remote, gitLog, status,
              commitPath, commitRet>>
vars == <<url, html, newsItems, uniqueNews, passes, ppc,
          pc, idx, news, produced, attempts, allNews, sleeps, sleepTime, day,
          mdFilename, fsLog, clock, files, index, head, remote, gitLog, status,
          commitPath, commitRet>>

----------------------------------------------------------------------------
(* Bounds of the model *)

\* longest structured document (number of elements) fed to parseNews
MaxElems == 3
\* how many times midnight may pass while main() runs
MaxMidnights == 1

----------------------------------------------------------------------------
(* String helpers (JavaScript String methods) *)

\* String.prototype.startsWith
StartsWith(s, p) == Len(s) >= Len(p) /\ SubSeq(s, 1, Len(p)) = p

\* String.prototype.includes
Includes(s, p) == \E i \in 1..(Len(s) - Len(p) + 1) : SubSeq(s, i, i + Len(p) - 1) = p

\* String.prototype.trim
Trim(s) ==
    LET keep == {i \in 1..Len(s) : s[i] # " "}
        lo == CHOOSE i \in keep : \A j \in keep : i <= j
        hi == CHOOSE i \in keep : \A j \in keep : i >= j
    IN  IF keep = {} THEN <<>> ELSE SubSeq(s, lo, hi)

UpperCase == {"J", "S", "M", "A", "I", "L", "T", "O", "E"}
LowerOf(c) ==
    CASE c = "J" -> "j" [] c = "S" -> "s" [] c = "M" -> "m" [] c = "A" -> "a"
      [] c = "I" -> "i" [] c = "L" -> "l" [] c = "T" -> "t" [] c = "O" -> "o"
      [] c = "E" -> "e" [] OTHER -> c
\* String.prototype.toLowerCase
ToLowerCase(s) == [i \in 1..Len(s) |-> LowerOf(s[i])]

Letters == UpperCase \cup {"a", "c", "e", "h", "i", "j", "l", "m", "o", "p", "r",
                           "s", "t", "v"}

Http == <<"h","t","t","p">>
JavascriptScheme == <<"j","a","v","a","s","c","r","i","p","t",":">>
MailtoScheme == <<"m","a","i","l","t","o",":">>
TelScheme == <<"t","e","l",":">>

\* /^(javascript|mailto|tel):/.test(href): the pattern carries no i flag
SchemeRegexTest(href) ==
    \E p \in {JavascriptScheme, MailtoScheme, TelScheme} : StartsWith(href, p)

----------------------------------------------------------------------------
(* URLs (the WHATWG URL class, on the inputs of the model) *)

SinaSite == <<"h","t","t","p","s",":","/","/","n","e","w","s",".","s","i","n","a",".","c","o","m",".","c","n","/">>
NeteaseSite == <<"h","t","t","p","s",":","/","/","n","e","w","s",".","1","6","3",".","c","o","m","/">>
QqSite == <<"h","t","t","p","s",":","/","/","n","e","w","s",".","q","q",".","c","o","m","/">>
SohuSite == <<"h","t","t","p","s",":","/","/","w","w","w",".","s","o","h","u",".","c","o","m","/","c","/","8","/">>
ThePaperSite == <<"h","t","t","p","s",":","/","/","w","w","w",".","t","h","e","p","a","p","e","r",".","c","n","/">>

\* the fixed target list of main()
newsSites == <<SinaSite, NeteaseSite, QqSite, SohuSite, ThePaperSite>>

SinaMarker == <<"s","i","n","a",".","c","o","m",".","c","n">>
NeteaseMarker == <<"1","6","3",".","c","o","m">>

\* position of the n-th "/" of s (0 when there is none)
RECURSIVE NthSlash(_, _, _)
NthSlash(s, n, from) ==
    IF from > Len(s) THEN 0
    ELSE IF s[from] = "/" THEN (IF n = 1 THEN from ELSE NthSlash(s, n - 1, from + 1))
    ELSE NthSlash(s, n, from + 1)

\* new URL(u).origin, for u = scheme://host/path
Origin(u) ==
    LET k == NthSlash(u, 3, 1) IN IF k = 0 THEN u ELSE SubSeq(u, 1, k - 1)

\* new URL(u).hostname, for u = scheme://host/path
Hostname(u) == LET o == Origin(u) IN SubSeq(o, NthSlash(o, 2, 1) + 1, Len(o))

\* href begins with a URL scheme (letters followed by ":")
HasScheme(href) ==
    \E i \in 2..Len(href) : href[i] = ":" /\ \A j \in 1..(i - 1) : href[j] \in Letters

\* new URL(href, base) throws: a protocol-relative reference with an unclosed
\* IPv6 host is the invalid reference of the model
URLThrows(href) == StartsWith(href, <<"/","/","[">>)

\* new URL(href, base).href when it does not throw: a reference with a scheme is
\* absolute (its scheme is lower-cased), a reference starting with "/" replaces
\* the path of base, any other reference is appended to the directory of base
\* (every base of the model ends with "/")
URLHref(href, base) ==
    IF HasScheme(href)
    THEN LET k == CHOOSE i \in 2..Len(href) :
                    href[i] = ":" /\ \A j \in 1..(i - 1) : href[j] # ":"
         IN  ToLowerCase(SubSeq(href, 1, k)) \o SubSeq(href, k + 1, Len(href))
    ELSE IF StartsWith(href, <<"/">>) THEN Origin(base) \o href
    ELSE base \o href

\* link.startsWith("http") ? link : new URL(link, this.url).href
FullLink(href, base) == IF StartsWith(href, Http) THEN href ELSE URLHref(href, base)

\* the expression above throws
FullLinkThrows(href) == ~StartsWith(href, Http) /\ URLThrows(href)

----------------------------------------------------------------------------
(* Documents.  A document is the list of its elements in document order;   *)
(* each element is <li class=cls><a href=href>text</a></li>, or the bare   *)
(* anchor <a href=href>text</a> when cls = "a".  href = NoHref: the anchor *)
(* has no (or an empty) href attribute.  broken: cheerio.load throws.      *)

NoHref == <<>>

\* selectors of the passes, as the class of the elements they match
SinaHotSelector == {"news-item"}      \* ".news-item, .ty-card-type1, .ty-card-type2"
SinaWeiboSelector == {"list_a"}       \* ".list_a li, .data-list li"
NeteaseSelector == {"news_title"}     \* ".news_title, .data_row, .news_item"
AnchorSelector == {"news-item", "list_a", "news_title", "a"}   \* "a": every anchor

\* $(selector): the matching elements in document order
Select(doc, selector) == SelectSeq(doc.elems, LAMBDA e : e.cls \in selector)

\* summary placeholders and source labels
SinaHotSummary == "hot-news"                 \* "热门新闻"
SinaHotSource == <<"sina-news">>             \* "新浪新闻"
SinaWeiboSummary == "hot-list-no-summary"    \* "热榜新闻，无摘要"
SinaWeiboSource == <<"sina-weibo-hot">>      \* "新浪微博热搜"
NeteaseSummary == "netease-no-summary"       \* "网易新闻，无摘要"
NeteaseSource == <<"netease-news">>          \* "网易新闻"
GenericSummary == "generic-no-summary"       \* "通用爬取，无摘要"

\* lower and upper limit (both exclusive) of text.length in the generic pass
MinTextLen == 10
MaxTextLen == 100

\* a site-specific pass pushes a record for el: title && link, and the link
\* resolves (a throwing new URL is caught per element and the element skipped)
SpecificAccepts(el) ==
    /\ Trim(el.text) # <<>>
    /\ el.href # NoHref
    /\ ~FullLinkThrows(el.href)

\* the generic pass pushes a record for the anchor el
GenericAccepts(el) ==
    /\ Trim(el.text) # <<>>
    /\ el.href # NoHref
    /\ Len(Trim(el.text)) > MinTextLen
    /\ Len(Trim(el.text)) < MaxTextLen
    /\ ~SchemeRegexTest(el.href)
    /\ ~FullLinkThrows(el.href)

\* the record pushed for el (crawl_time is stamped by Stamp below)
NewsRecord(el, base, summary, source) ==
    [title |-> Trim(el.text), link |-> FullLink(el.href, base), summary |-> summary,
     crawl_time |-> 0, source |-> source]

\* one .each() pass: a record for every accepted element, in document order
\* (accepted: the matched elements for which the callback pushes)
EachPass(accepted, base, summary, source) ==
    [i \in 1..Len(accepted) |-> NewsRecord(accepted[i], base, summary, source)]

\* the two sina passes, the netease pass, and no pass for any other URL
SpecificItems(u, doc) ==
    IF Includes(u, SinaMarker)
    THEN EachPass(SelectSeq(Select(doc, SinaHotSelector), SpecificAccepts), u,
                  SinaHotSummary, SinaHotSource)
         \o EachPass(SelectSeq(Select(doc, SinaWeiboSelector), SpecificAccepts), u,
                     SinaWeiboSummary, SinaWeiboSource)
    ELSE IF Includes(u, NeteaseMarker)
    THEN EachPass(SelectSeq(Select(doc, NeteaseSelector), SpecificAccepts), u,
                  NeteaseSummary, NeteaseSource)
    ELSE <<>>

GenericItems(u, doc) ==
    EachPass(SelectSeq(Select(doc, AnchorSelector), GenericAccepts), u,
             GenericSummary, Hostname(u))

\* if (newsItems.length === 0): the generic pass runs
RunsGenericAlways(u, doc) == TRUE
RunsGeneric(u, doc) == Len(SpecificItems(u, doc)) = 0

\* crawl_time: new Date() at each push, a logical clock ticking once per push
Stamp(items, now) == [i \in 1..Len(items) |-> [items[i] EXCEPT !.crawl_time = now + i]]

\* newsItems when the passes are over
CollectItems(u, doc, now) ==
    LET specific == SpecificItems(u, doc)
    IN  Stamp(IF RunsGeneric(u, doc) THEN specific \o GenericItems(u, doc) ELSE specific,
              now)

\* the passes parseNews executes
PassesRun(u, doc) ==
    (IF Includes(u, SinaMarker) THEN {"sina-hot", "sina-weibo"}
     ELSE IF Includes(u, NeteaseMarker) THEN {"netease"} ELSE {})
    \cup (IF RunsGeneric(u, doc) THEN {"generic"} ELSE {})

\* new Map(newsItems.map(item => [item.title, item])): keys in first-insertion
\* order, a repeated key keeps its position and takes the new value
RECURSIVE TitleMap(_, _)
TitleMap(items, n) ==
    IF n = 0 THEN [keys |-> <<>>, vals |-> <<>>]
    ELSE LET m == TitleMap(items, n - 1)
             k == items[n].title
         IN  IF \E i \in 1..Len(m.keys) : m.keys[i] = k
             THEN [keys |-> m.keys,
                   vals |-> [i \in 1..Len(m.keys) |->
                               IF m.keys[i] = k THEN items[n] ELSE m.vals[i]]]
             ELSE [keys |-> Append(m.keys, k), vals |-> Append(m.vals, items[n])]

\* a deduplication keeping the first record of each title
RECURSIVE FirstOfEachTitle(_, _)
FirstOfEachTitle(items, n) ==
    IF n = 0 THEN <<>>
    ELSE LET r == FirstOfEachTitle(items, n - 1)
         IN  IF \E i \in 1..Len(r) : r[i].title = items[n].title THEN r
             ELSE Append(r, items[n])
UniqueNewsKeepFirst(items) == FirstOfEachTitle(items, Len(items))

\* Array.from(new Map(...).values())
UniqueNews(items) == TitleMap(items, Len(items)).vals

\* parseNews(html): [] when the parser itself fails
parseNews(u, doc, now) ==
    IF doc.broken THEN <<>> ELSE UniqueNews(CollectItems(u, doc, now))

----------------------------------------------------------------------------
(* Inputs of the parseNews specification *)

Pad(c, n) == [i \in 1..n |-> c]
TextA == Pad("a", MinTextLen + 1)
TextB == Pad("b", MinTextLen + 2)
AbsHref == <<"h","t","t","p",":","/","/","t",".","c","n","/","a">>
RelHref == <<"/","n","/","1",".","h","t","m","l">>
BadHref == <<"/","/","[">>
JsHref == <<"j","a","v","a","s","c","r","i","p","t",":","v","o","i","d","(","0",")">>
JsHrefMixed == <<"J","a","v","a","S","c","r","i","p","t",":","v","o","i","d","(","0",")">>
MailHref == <<"m","a","i","l","t","o",":","a","@","b">>
MailHrefUpper == <<"M","A","I","L","T","O",":","a","@","b">>
TelHref == <<"t","e","l",":","1","0","0","8","6">>

Element(c, t, h) == [cls |-> c, text |-> t, href |-> h]

\* elements of the structured documents: titled links of every class, an
\* element without title and one without href
StructElems ==
    {Element(c, th[1], th[2]) :
       c \in AnchorSelector,
       th \in {<<TextA, AbsHref>>, <<TextA, RelHref>>, <<TextB, RelHref>>}}
    \cup {Element("news-item", <<>>, AbsHref), Element("list_a", TextA, NoHref)}

\* bare anchors around the limits of the generic filter
AnchorTexts ==
    {<<>>, Pad("a", MinTextLen), Pad("a", MinTextLen + 1), Pad("a", MaxTextLen - 1),
     Pad("a", MaxTextLen), <<" ">> \o Pad("a", MinTextLen) \o <<" ">>}
AnchorHrefs ==
    {NoHref, AbsHref, RelHref, BadHref, JsHref, JsHrefMixed, MailHref, MailHrefUpper, TelHref}
AnchorElems == {Element("a", t, h) : t \in AnchorTexts, h \in AnchorHrefs}

SeqsUpTo(S, n) == UNION {[1..k -> S] : k \in 0..n}

Documents ==
    {[broken |-> FALSE, elems |-> es] : es \in SeqsUpTo(StructElems, MaxElems)}
    \cup {[broken |-> FALSE, elems |-> <<e>>] : e \in AnchorElems}
    \cup {[broken |-> TRUE, elems |-> <<>>]}

ParseUrls == {SinaSite, NeteaseSite, QqSite}

----------------------------------------------------------------------------
(* Renderer and file system *)

Null == "null"

\* `${year}${month}${day}.md`, day d counted from the day main() started
DateFile(d) == ToString(20250101 + d) \o ".md"
DebugFile == "debug_html.html"

\* new Date() read now: the day last read, or the next one once midnight passed
DaysFrom(today) == {d \in today..(today + 1) : d <= MaxMidnights}

\* item.title.replace(/\|/g, "\\|")
RECURSIVE EscapePipes(_)
EscapePipes(t) ==
    IF t = <<>> THEN <<>>
    ELSE (IF Head(t) = "|" THEN <<"\\", "|">> ELSE <<Head(t)>>) \o EscapePipes(Tail(t))

\* the keys of newsBySource in insertion order
RECURSIVE SourcesOf(_, _)
SourcesOf(items, n) ==
    IF n = 0 THEN <<>>
    ELSE LET r == SourcesOf(items, n - 1)
         IN  IF \E i \in 1..Len(r) : r[i] = items[n].source THEN r
             ELSE Append(r, items[n].source)

\* mdContent: the dated heading, then one section per source with one table
\* row per item of that source
Render(items, d) ==
    LET srcs == SourcesOf(items, Len(items))
        row(it) == [title |-> EscapePipes(it.title), link |-> it.link]
        of(src) == SelectSeq(items, LAMBDA it : it.source = src)
    IN  [date |-> d,
         sections |-> [k \in 1..Len(srcs) |->
                         [source |-> srcs[k],
                          rows |-> [j \in 1..Len(of(srcs[k])) |-> row(of(srcs[k])[j])]]]]

\* fs.writeFileSync(f, c) succeeding
WriteFile(fs, f, c) == [g \in DOMAIN fs \cup {f} |-> IF g = f THEN c ELSE fs[g]]

\* one entry of fsLog
WriteCall(f, items, phase, ok) == [file |-> f, items |-> items, phase |-> phase, ok |-> ok]

\* saveToMarkdown(items, filename) called in `phase` on the file system fs, the
\* day last read being today: the set of its outcomes [files, log, ret, day].
\* No write for an empty list; the write may throw, which is caught and turned
\* into false
saveToMarkdown(fs, log, items, filename, phase, today) ==
    IF Len(items) = 0
    THEN {[files |-> fs, log |-> log, ret |-> FALSE, day |-> today]}
    ELSE {[files |-> IF ok THEN WriteFile(fs, f, Render(items, d)) ELSE fs,
           log |-> Append(log, WriteCall(f, items, phase, ok)),
           ret |-> ok,
           day |-> d] :
             <<d, f, ok>> \in {<<d, IF filename = Null THEN DateFile(d) ELSE filename, ok>> :
                                 d \in DaysFrom(today), ok \in BOOLEAN}}

----------------------------------------------------------------------------
(* The repository (simple-git) *)

\* git.status(): files of the work tree that differ from the index (modified)
\* and files the index does not know (not_added)
StatusOf(fs, ix) ==
    [modified |-> {f \in DOMAIN fs \cap DOMAIN ix : fs[f] # ix[f]},
     not_added |-> DOMAIN fs \ DOMAIN ix]

\* !status.modified.includes(filePath) && !status.not_added.includes(filePath)
NothingToCommitNever(st, filePath) == FALSE
NothingToCommit(st, filePath) ==
    filePath \notin st.modified /\ filePath \notin st.not_added

\* the value of status before git.status() answered
NoStatus == [modified |-> {}, not_added |-> {}]

GitOp(op, filePath, ok) == [op |-> op, path |-> filePath, ok |-> ok]

\* the digest a run of an earlier hour of day 0 left behind, committed and pushed
OldDigest == [date |-> 0, sections |-> <<>>]

----------------------------------------------------------------------------
(* main(): the orchestrator *)

\* sleepTime = 3000 + Math.random() * 5000
SleepBase == 3000
SleepSpan == 5000
RandomParts == {0, SleepSpan - 1}

\* responses of the model: a body the parser cannot load, an empty page, and a
\* page with a headline card and a hot-list entry of the same title
MainDocs ==
    {[broken |-> TRUE, elems |-> <<>>],
     [broken |-> FALSE, elems |-> <<>>],
     [broken |-> FALSE, elems |-> <<Element("news-item", TextA, AbsHref),
                                     Element("list_a", TextA, RelHref)>>]}

RunOutcome(n, fs, log, d, ck) == [news |-> n, files |-> fs, log |-> log, day |-> d, clock |-> ck]

\* run() once fetchPage returned doc: the debug write (a throw ends run() with
\* []), parseNews, and saveToMarkdown(newsItems, null) when there are records
RunWithPage(site, doc) ==
    LET fs1 == WriteFile(files, DebugFile, doc)
        log1 == Append(fsLog, WriteCall(DebugFile, <<>>, "target", TRUE))
        items == parseNews(site, doc, clock)
        ck == clock + Len(items)
    IN  {RunOutcome(<<>>, files, Append(fsLog, WriteCall(DebugFile, <<>>, "target", FALSE)),
                    day, clock)}
        \cup (IF Len(items) > 0
              THEN {RunOutcome(items, s.files, s.log, s.day, ck) :
                      s \in saveToMarkdown(fs1, log1, items, Null, "target", day)}
              ELSE {RunOutcome(items, fs1, log1, day, ck)})

\* run(): fetchPage throws (caught, []), or returns a page
CrawlerRun(site) ==
    {RunOutcome(<<>>, files, fsLog, day, clock)}
    \cup UNION {RunWithPage(site, doc) : doc \in MainDocs}

repoVars == <<index, head, remote, gitLog, status, commitPath, commitRet>>

\* for (const site of newsSites): crawler.run() starts with fetchPage
StartFetch ==
    /\ pc = "fetch"
    /\ attempts' = Append(attempts, idx)
    /\ pc' = "fetching"
    /\ UNCHANGED <<idx, news, produced, allNews, sleeps, sleepTime, day, mdFilename,
                   fsLog, clock, files>>
    /\ UNCHANGED repoVars /\ UNCHANGED parseVars

\* const news = await crawler.run()
FetchDone ==
    /\ pc = "fetching"
    /\ \E o \in CrawlerRun(newsSites[idx]) :
         /\ news' = o.news
         /\ produced' = Append(produced, o.news)
         /\ files' = o.files
         /\ fsLog' = o.log
         /\ day' = o.day
         /\ clock' = o.clock
    /\ pc' = "push"
    /\ UNCHANGED <<idx, attempts, allNews, sleeps, sleepTime, mdFilename>>
    /\ UNCHANGED repoVars /\ UNCHANGED parseVars

\* allNews = news instead of allNews.push(...news)
AccumulateReplacing ==
    /\ pc = "push"
    /\ allNews' = news
    /\ \E r \in RandomParts : sleepTime' = SleepBase + r
    /\ sleeps' = Append(sleeps, idx)
    /\ pc' = "sleep"
    /\ UNCHANGED <<idx, news, produced, attempts, day, mdFilename, fsLog, clock, files>>
    /\ UNCHANGED repoVars /\ UNCHANGED parseVars

\* allNews.push(...news), then the timer of the sleep is set
Accumulate ==
    /\ pc = "push"
    /\ allNews' = allNews \o news
    /\ \E r \in RandomParts : sleepTime' = SleepBase + r
    /\ sleeps' = Append(sleeps, idx)
    /\ pc' = "sleep"
    /\ UNCHANGED <<idx, news, produced, attempts, day, mdFilename, fsLog, clock, files>>
    /\ UNCHANGED repoVars /\ UNCHANGED parseVars

\* the timer fires: the next target, or the end of the loop
SleepDone ==
    /\ pc = "sleep"
    /\ sleepTime' = 0
    /\ news' = <<>>
    /\ IF idx < Len(newsSites)
       THEN idx' = idx + 1 /\ pc' = "fetch"
       ELSE idx' = idx /\ pc' = "post"
    /\ UNCHANGED <<produced, attempts, allNews, sleeps, day, mdFilename, fsLog, clock, files>>
    /\ UNCHANGED repoVars /\ UNCHANGED parseVars

\* if (allNews.length > 0)
HasNewsAlways(list) == TRUE
HasNews(list) == Len(list) > 0

\* nothing was collected: main() returns
AfterLoopEmpty ==
    /\ pc = "post"
    /\ ~HasNews(allNews)
    /\ pc' = "done"
    /\ UNCHANGED <<idx, news, produced, attempts, allNews, sleeps, sleepTime, day,
                   mdFilename, fsLog, clock, files>>
    /\ UNCHANGED repoVars /\ UNCHANGED parseVars

\* mdFilename is derived from the date, dummyCrawler.saveToMarkdown(allNews,
\* mdFilename) is awaited and its result dropped
AfterLoopSave ==
    /\ pc = "post"
    /\ HasNews(allNews)
    /\ \E d \in DaysFrom(day) :
         \E s \in saveToMarkdown(files, fsLog, allNews, DateFile(d), "aggregate", d) :
           /\ mdFilename' = DateFile(d)
           /\ files' = s.files
           /\ fsLog' = s.log
           /\ day' = s.day
    /\ pc' = "saved"
    /\ UNCHANGED <<idx, news, produced, attempts, allNews, sleeps, sleepTime, clock>>
    /\ UNCHANGED repoVars /\ UNCHANGED parseVars

fsVars == <<idx, news, produced, attempts, allNews, sleeps, sleepTime, day, mdFilename,
            fsLog, clock, files>>

\* commitToGitHub(mdFilename): git.status() throws
CommitStatusThrows ==
    /\ pc = "saved"
    /\ commitPath' = mdFilename
    /\ gitLog' = Append(gitLog, GitOp("status", Null, FALSE))
    /\ commitRet' = "false"
    /\ pc' = "done"
    /\ UNCHANGED <<index, head, remote, status>>
    /\ UNCHANGED fsVars /\ UNCHANGED parseVars

\* commitToGitHub(mdFilename): git.status() answers, and the file is looked up
\* in status.modified and status.not_added
CommitStatus ==
    /\ pc = "saved"
    /\ commitPath' = mdFilename
    /\ gitLog' = Append(gitLog, GitOp("status", Null, TRUE))
    /\ status' = StatusOf(files, index)
    /\ IF NothingToCommit(status', mdFilename)
       THEN commitRet' = "false" /\ pc' = "done"
       ELSE commitRet' = commitRet /\ pc' = "add"
    /\ UNCHANGED <<index, head, remote>>
    /\ UNCHANGED fsVars /\ UNCHANGED parseVars

\* await git.add(filePath)
GitAdd ==
    /\ pc = "add"
    /\ commitPath \in DOMAIN files
    /\ gitLog' = Append(gitLog, GitOp("add", commitPath, TRUE))
    /\ index' = WriteFile(index, commitPath, files[commitPath])
    /\ pc' = "commit"
    /\ UNCHANGED <<head, remote, status, commitPath, commitRet>>
    /\ UNCHANGED fsVars /\ UNCHANGED parseVars

\* a failed git.add whose error is swallowed
GitAddThrowsSwallowed ==
    /\ pc = "add"
    /\ gitLog' = Append(gitLog, GitOp("add", commitPath, FALSE))
    /\ pc' = "commit"
    /\ UNCHANGED <<index, head, remote, status, commitPath, commitRet>>
    /\ UNCHANGED fsVars /\ UNCHANGED parseVars

\* git.add throws: caught, false
GitAddThrows ==
    /\ pc = "add"
    /\ gitLog' = Append(gitLog, GitOp("add", commitPath, FALSE))
    /\ commitRet' = "false"
    /\ pc' = "done"
    /\ UNCHANGED <<index, head, remote, status, commitPath>>
    /\ UNCHANGED fsVars /\ UNCHANGED parseVars

\* await git.commit(commitMsg)
GitCommit ==
    /\ pc = "commit"
    /\ gitLog' = Append(gitLog, GitOp("commit", "commitMsg", TRUE))
    /\ head' = index
    /\ pc' = "gitpush"
    /\ UNCHANGED <<index, remote, status, commitPath, commitRet>>
    /\ UNCHANGED fsVars /\ UNCHANGED parseVars

\* git.commit throws: caught, false
GitCommitThrows ==
    /\ pc = "commit"
    /\ gitLog' = Append(gitLog, GitOp("commit", "commitMsg", FALSE))
    /\ commitRet' = "false"
    /\ pc' = "done"
    /\ UNCHANGED <<index, head, remote, status, commitPath>>
    /\ UNCHANGED fsVars /\ UNCHANGED parseVars

\* await git.push("origin", "main"), then return true
GitPush ==
    /\ pc = "gitpush"
    /\ gitLog' = Append(gitLog, GitOp("push", "origin main", TRUE))
    /\ remote' = head
    /\ commitRet' = "true"
    /\ pc' = "done"
    /\ UNCHANGED <<index, head, status, commitPath>>
    /\ UNCHANGED fsVars /\ UNCHANGED parseVars

\* git.push throws: caught, false
GitPushThrows ==
    /\ pc = "gitpush"
    /\ gitLog' = Append(gitLog, GitOp("push", "origin main", FALSE))
    /\ commitRet' = "false"
    /\ pc' = "done"
    /\ UNCHANGED <<index, head, remote, status, commitPath>>
    /\ UNCHANGED fsVars /\ UNCHANGED parseVars

\* the work tree at the start: no digest of today, or the committed and pushed
\* digest of an earlier run of the same day
InitialTrees == {<<>>, [f \in {DateFile(0)} |-> OldDigest]}

ParseIdle ==
    /\ url = <<>>
    /\ html = [broken |-> FALSE, elems |-> <<>>]
    /\ newsItems = <<>>
    /\ uniqueNews = <<>>
    /\ passes = {}
    /\ ppc = "idle"

MainStart(tree) ==
    /\ idx = 1
    /\ news = <<>>
    /\ produced = <<>>
    /\ attempts = <<>>
    /\ allNews = <<>>
    /\ sleeps = <<>>
    /\ sleepTime = 0
    /\ day = 0
    /\ mdFilename = Null
    /\ fsLog = <<>>
    /\ clock = 0
    /\ files = tree
    /\ index = tree
    /\ head = tree
    /\ remote = tree
    /\ gitLog = <<>>
    /\ status = NoStatus
    /\ commitPath = Null
    /\ commitRet = "none"

Init == ParseIdle /\ pc = "fetch" /\ \E tree \in InitialTrees : MainStart(tree)

Next ==
    \/ StartFetch
    \/ FetchDone
    \/ Accumulate
    \/ SleepDone
    \/ AfterLoopEmpty
    \/ AfterLoopSave
    \/ CommitStatusThrows
    \/ CommitStatus
    \/ GitAdd
    \/ GitAddThrows
    \/ GitCommit
    \/ GitCommitThrows
    \/ GitPush
    \/ GitPushThrows

Spec == Init /\ [][Next]_vars

----------------------------------------------------------------------------
(* One call of parseNews *)

\* parseNews(html) of a crawler for url
ParseNews ==
    /\ ppc = "call"
    /\ newsItems' = (IF html.broken THEN <<>> ELSE CollectItems(url, html, 0))
    /\ passes' = (IF html.broken THEN {} ELSE PassesRun(url, html))
    /\ uniqueNews' = parseNews(url, html, 0)
    /\ ppc' = "parsed"
    /\ UNCHANGED <<url, html, pc>>
    /\ UNCHANGED mainVars

InitParse ==
    /\ url \in ParseUrls
    /\ html \in Documents
    /\ newsItems = <<>>
    /\ uniqueNews = <<>>
    /\ passes = {}
    /\ ppc = "call"
    /\ MainStart(<<>>)
    /\ pc = "idle"

NextParse == ParseNews

SpecParse == InitParse /\ [][NextParse]_vars

----------------------------------------------------------------------------
(* The claims *)

RECURSIVE Flatten(_)
Flatten(ss) == IF ss = <<>> THEN <<>> ELSE Head(ss) \o Flatten(Tail(ss))

AfterLoopPcs == {"post", "saved", "add", "commit", "gitpush", "done"}
DigestWrites == {i \in 1..Len(fsLog) : fsLog[i].file # DebugFile}
GitSteps == <<"status", "add", "commit", "push">>

\* C1: main() sleeps only between two consecutive targets: a sleep follows
\* target k only if a target k+1 remains, none follows the last target.
C1_SleepOnlyBetweenTargets ==
    \A i \in 1..Len(sleeps) : sleeps[i] < Len(newsSites)

\* C2: whatever the outcome of each target, every target is attempted exactly
\* once, in the configured order, one after another (a fetch starts only when
\* every earlier target has returned), no target is retried, and the
\* accumulated list is the in-order concatenation of what the targets
\* returned, a failed target contributing nothing.
C2_EveryTargetOnceInOrder ==
    /\ \A i \in 1..Len(attempts) : attempts[i] = i
    /\ Len(attempts) <= Len(newsSites)
    /\ Len(attempts) = Len(produced) + (IF pc = "fetching" THEN 1 ELSE 0)
    /\ pc = "push" => allNews \o news = Flatten(produced)
    /\ pc # "push" => allNews = Flatten(produced)
    /\ pc \in AfterLoopPcs => Len(attempts) = Len(newsSites)

C2_Witness ==
    /\ pc = "done"
    /\ produced[1] # <<>>
    /\ produced[2] = <<>>
    /\ produced[3] # <<>>
    /\ Len(allNews) = 2

\* C3: in one run the digest is rendered and written once, on the aggregate
\* of all targets and after every target was processed: the dated file is
\* written at most once and never with the records of a single target.
C3_SavedOnceOnAggregate ==
    /\ Cardinality(DigestWrites) <= 1
    /\ \A i \in DigestWrites : fsLog[i].phase = "aggregate" /\ fsLog[i].items = allNews

\* C4: after the loop, an empty accumulated list means no file write and no git
\* operation (no digest was written in the whole run); a non-empty list means
\* the save to the date-derived filename is invoked and has returned before
\* commitToGitHub is invoked, and commitToGitHub gets that same filename.
C4_EmptySkipsElseSaveThenCommit ==
    /\ (pc \in AfterLoopPcs /\ allNews = <<>>) =>
          /\ pc \in {"post", "done"}
          /\ DigestWrites = {}
          /\ \A i \in 1..Len(fsLog) : fsLog[i].phase = "target"
          /\ gitLog = <<>>
          /\ commitRet = "none"
          /\ index = head /\ head = remote
    /\ (pc \in AfterLoopPcs \ {"post"} /\ allNews # <<>>) =>
          /\ \E d \in 0..day : mdFilename = DateFile(d)
          /\ Cardinality({i \in 1..Len(fsLog) : fsLog[i].phase = "aggregate"}) = 1
          /\ fsLog[Len(fsLog)].phase = "aggregate"
          /\ fsLog[Len(fsLog)].file = mdFilename
          /\ fsLog[Len(fsLog)].items = allNews
          /\ gitLog # <<>> => commitPath = mdFilename
          /\ \A i \in 1..Len(gitLog) : gitLog[i].op = "add" => gitLog[i].path = mdFilename
          /\ pc = "done" => gitLog # <<>>

C4_Witness ==
    /\ pc = "done"
    /\ allNews # <<>>
    /\ fsLog[Len(fsLog)].ok
    /\ commitRet = "true"

\* C5: commitToGitHub stages, commits and pushes only if the status lists the
\* path as modified or as untracked; when the path is in neither list it
\* returns false after the status query alone, index, HEAD and remote untouched.
C5_CommitsOnlyListedPath ==
    LET listed == commitPath \in status.modified \cup status.not_added
    IN  /\ Len(gitLog) > 1 => listed
        /\ (gitLog # <<>> /\ gitLog[1].ok /\ ~listed) =>
              /\ pc = "done"
              /\ commitRet = "false"
              /\ gitLog = <<GitOp("status", Null, TRUE)>>
              /\ index = head /\ head = remote

C5_Witness ==
    /\ gitLog # <<>>
    /\ gitLog[1].ok
    /\ commitPath \notin status.modified \cup status.not_added
    /\ commitRet = "false"

\* C6: commitToGitHub returns a boolean whatever step fails: the steps run in
\* the order status, add, commit, push, none runs after a failed one, a failed
\* step makes it return false, and it returns true only when all succeeded.
C6_CommitNeverThrows ==
    LET n == Len(gitLog)
    IN  /\ n <= Len(GitSteps)
        /\ \A i \in 1..n : gitLog[i].op = GitSteps[i]
        /\ \A i \in 1..(n - 1) : gitLog[i].ok
        /\ (n > 0 /\ ~gitLog[n].ok) => (commitRet = "false" /\ pc = "done")
        /\ commitRet = "true" <=> (n = Len(GitSteps) /\ gitLog[n].ok)
        /\ (pc = "done" /\ n > 0) => commitRet \in {"true", "false"}

C6_Witness ==
    /\ pc = "done"
    /\ Len(gitLog) = 3
    /\ ~gitLog[3].ok
    /\ commitRet = "false"

\* C7: when the save of the aggregate digest fails, main() takes no further
\* publishing step: commitToGitHub is not invoked, no git operation happens.
C7_NoCommitAfterFailedSave ==
    (\E i \in 1..Len(fsLog) : fsLog[i].phase = "aggregate" /\ ~fsLog[i].ok) => gitLog = <<>>

FirstIdx(t) == CHOOSE i \in 1..Len(newsItems) :
                  newsItems[i].title = t /\ \A j \in 1..(i - 1) : newsItems[j].title # t
LastIdx(t) == CHOOSE i \in 1..Len(newsItems) :
                  newsItems[i].title = t /\ \A j \in (i + 1)..Len(newsItems) : newsItems[j].title # t

\* C8: the list parseNews returns holds exactly one record per distinct title
\* of the candidates, that record is the last candidate of that title (all its
\* fields), and the records come in the order of the first occurrence of their
\* titles.
C8_LastWinsFirstOrder ==
    ppc = "parsed" =>
      /\ \A i, j \in 1..Len(uniqueNews) : i # j => uniqueNews[i].title # uniqueNews[j].title
      /\ {uniqueNews[i].title : i \in 1..Len(uniqueNews)}
           = {newsItems[i].title : i \in 1..Len(newsItems)}
      /\ \A i \in 1..Len(uniqueNews) : uniqueNews[i] = newsItems[LastIdx(uniqueNews[i].title)]
      /\ \A i, j \in 1..Len(uniqueNews) :
           i < j => FirstIdx(uniqueNews[i].title) < FirstIdx(uniqueNews[j].title)

C8_Witness ==
    /\ ppc = "parsed"
    /\ Len(newsItems) = 3
    /\ newsItems[1].title = newsItems[3].title
    /\ newsItems[1].title # newsItems[2].title
    /\ newsItems[1].source # newsItems[3].source
    /\ newsItems[1].link # newsItems[3].link
    /\ Len(uniqueNews) = 2

\* C9: once the document is loaded, the generic pass runs if and only if the
\* site-specific passes pushed no record (or the URL selects none); a returned
\* list never mixes records of the generic pass with site-specific records.
C9_GenericOnlyAsFallback ==
    ppc = "parsed" =>
      /\ ~html.broken =>
           ("generic" \in passes
              <=> \A i \in 1..Len(newsItems) : newsItems[i].summary = GenericSummary)
      /\ \A i, j \in 1..Len(uniqueNews) :
           uniqueNews[i].summary = GenericSummary => uniqueNews[j].summary = GenericSummary

C9_Witness ==
    /\ ppc = "parsed"
    /\ "sina-hot" \in passes
    /\ "generic" \in passes
    /\ Len(uniqueNews) = 2

\* startsWith one of javascript:, mailto:, tel: compared case-insensitively
SchemeMatchIgnoringCase(href) ==
    \E p \in {JavascriptScheme, MailtoScheme, TelScheme} : StartsWith(ToLowerCase(href), p)

\* C10: the generic pass accepts an anchor only if its trimmed text length L
\* satisfies 10 < L < 100 and its href does not start with javascript:,
\* mailto: or tel: in any letter case.
C10_GenericFilter ==
    (ppc = "parsed" /\ "generic" \in passes) =>
      \A k \in 1..Len(html.elems) :
        LET el == html.elems[k]
            pushed == \E i \in 1..Len(newsItems) :
                         /\ newsItems[i].title = Trim(el.text)
                         /\ newsItems[i].link = FullLink(el.href, url)
        IN  (el.href # NoHref /\ pushed) =>
              /\ Len(Trim(el.text)) > MinTextLen
              /\ Len(Trim(el.text)) < MaxTextLen
              /\ ~SchemeMatchIgnoringCase(el.href)

====
